---- MODULE Spec2Model ----
(***************************************************************************)
(* Model of cita-checker: check-cita.py (the navigation state machine, the *)
(* availability classifier and the result reporter).                       *)
(*                                                                         *)
(* Texts are sequences of one-character strings, so that lower-casing and  *)
(* the substring tests of the classifier are computed, not assumed.        *)
(***************************************************************************)
EXTENDS Integers, Sequences, FiniteSets, TLC

VARIABLES
  use_clave,     \* CitaChecker.use_clave (not --no-clave)
  pc,            \* position of the single thread of the program
  driver,        \* self.driver: "none", "open" (session alive), "quit" (quit() called)
  result,        \* run()'s local variable `result`
  verdict,       \* value returned by check_availability, "none" before it returns
  run_ret,       \* value returned by run(), "none" before it returns
  exc,           \* exception propagating out of run(): "none" or "KeyboardInterrupt"
  exit_code,     \* process exit status, -1 while the process runs
  exit_from,     \* the statement that ended the process, "none" while it runs
  steps,         \* the steps started so far in this run, in order
  step_res,      \* result of each selection step: "none", "ok" or "fail"
  home,          \* outcome of the homepage waits: "none", "ready", "timeout", "error"
  clicks,        \* clicks performed, per click site
  tram_wait,     \* composite wait of select_tramite: "none", "skipped", "changed", "timeout", "error"
  page,          \* document shown when classification starts: [parts, warnAt]
  reads,         \* what the classifier read: [warning, body]
  warning_text,  \* check_availability's local `warning_text`
  page_text,     \* check_availability's local `page_text`
  holdTicks,     \* iterations of the hold loop so far
  sigint,        \* a Ctrl+C (SIGINT) has been delivered to the process
  auth_res,      \* outcome of the two authentication strategies: "none", "ok", "fail"
  prov_obs,      \* select_provincia: what was observed, [sel, click, ready]
  notify,        \* notify.py: the state of the notification dispatcher
  inter          \* one interaction (a selection step or an authentication
                 \* strategy) followed statement by statement

vars == << use_clave, pc, driver, result, verdict, run_ret, exc, exit_code, exit_from, steps,
           step_res, home, clicks, tram_wait, page, reads, warning_text, page_text,
           holdTicks, sigint, auth_res, prov_obs, notify, inter >>

-----------------------------------------------------------------------------
(* Bounds of the model *)

\* most child blocks a modelled document has
MaxParts == 2

\* most iterations of the hold loop that are told apart
MaxHoldTicks == 2

-----------------------------------------------------------------------------
(* Texts *)

\* str.lower() on the characters that occur: upper-case ASCII letters map to
\* lower case, every other character is unchanged
ToLower ==
  ("A" :> "a") @@  ("B" :> "b") @@  ("C" :> "c") @@  ("D" :> "d") @@  ("E" :> "e") @@  ("F" :> "f") @@
  ("G" :> "g") @@  ("H" :> "h") @@  ("I" :> "i") @@  ("J" :> "j") @@  ("K" :> "k") @@  ("L" :> "l") @@
  ("M" :> "m") @@  ("N" :> "n") @@  ("O" :> "o") @@  ("P" :> "p") @@  ("Q" :> "q") @@  ("R" :> "r") @@
  ("S" :> "s") @@  ("T" :> "t") @@  ("U" :> "u") @@  ("V" :> "v") @@  ("W" :> "w") @@  ("X" :> "x") @@
  ("Y" :> "y") @@  ("Z" :> "z")

LowerChar(c) == IF c \in DOMAIN ToLower THEN ToLower[c] ELSE c

Lower(t) == [i \in 1..Len(t) |-> LowerChar(t[i])]

\* Python's `p in t` for strings: p occurs in t as a contiguous substring
Contains(t, p) ==
  \/ Len(p) = 0
  \/ \E i \in 1..(Len(t) - Len(p) + 1) :
        /\ t[i] = p[1]
        /\ SubSeq(t, i, i + Len(p) - 1) = p

\* the phrase lists of check_availability
error_indicators ==
  << <<"t","h","e"," ","r","e","q","u","e","s","t","e","d"," ","u","r","l"," ","w","a","s"," ","r","e","j","e","c","t","e","d">>,
     <<"u","r","l"," ","w","a","s"," ","r","e","j","e","c","t","e","d">>,
     <<"e","r","r","o","r">>,
     <<"e","x","c","e","p","t","i","o","n">>,
     <<"s","u","p","p","o","r","t"," ","i","d">>,
     <<"c","o","n","s","u","l","t"," ","w","i","t","h"," ","y","o","u","r"," ","a","d","m","i","n","i","s","t","r","a","d","o","r">>,
     <<"g","o"," ","b","a","c","k">> >>

no_citas_phrase ==
  <<"e","n"," ","e","s","t","e"," ","m","o","m","e","n","t","o"," ","n","o"," ","h","a","y"," ","c","i","t","a","s"," ","d","i","s","p","o","n","i","b","l","e","s">>

positive_indicators ==
  << <<"s","o","l","i","c","i","t","a","r"," ","c","i","t","a">>,
     <<"s","e","l","e","c","c","i","o","n","e"," ","f","e","c","h","a">>,
     <<"c","i","t","a","s"," ","d","i","s","p","o","n","i","b","l","e","s">>,
     <<"r","e","s","e","r","v","a","r"," ","c","i","t","a">>,
     <<"c","a","l","e","n","d","a","r","i","o">> >>

-----------------------------------------------------------------------------
(* Documents: the body is a list of blocks, one of which may be the        *)
(* element with id "warning".  element.text of the body is the text of its *)
(* blocks, one per line; element.text of #warning is the text of its block *)
(* (empty for a block that is not displayed).                              *)

\* texts a block can show
Fragment ==
  << <<"E","n"," ","e","s","t","e"," ","m","o","m","e","n","t","o"," ","n","o"," ","h","a","y"," ","c","i","t","a","s"," ","d","i","s","p","o","n","i","b","l","e","s",".">>,
     <<"T","h","e"," ","r","e","q","u","e","s","t","e","d"," ","U","R","L"," ","w","a","s"," ","r","e","j","e","c","t","e","d",".">>,
     <<"U","R","L"," ","w","a","s"," ","r","e","j","e","c","t","e","d">>,
     <<"E","r","r","o","r">>,
     <<"e","x","c","e","p","t","i","o","n">>,
     <<"Y","o","u","r"," ","s","u","p","p","o","r","t"," ","I","D"," ","i","s",":"," ","1","2","3","4","5">>,
     <<"c","o","n","s","u","l","t"," ","w","i","t","h"," ","y","o","u","r"," ","a","d","m","i","n","i","s","t","r","a","d","o","r">>,
     <<"G","o"," ","B","a","c","k">>,
     <<"S","o","l","i","c","i","t","a","r"," ","C","i","t","a">>,
     <<"S","e","l","e","c","c","i","o","n","e"," ","f","e","c","h","a"," ","y"," ","h","o","r","a">>,
     <<"c","i","t","a","s"," ","d","i","s","p","o","n","i","b","l","e","s">>,
     <<"R","e","s","e","r","v","a","r"," ","c","i","t","a">>,
     <<"C","a","l","e","n","d","a","r","i","o">>,
     <<"B","i","e","n","v","e","n","i","d","o">>,
     <<>> >>

SeqsUpTo(S, n) == UNION { [1..k -> S] : k \in 0..n }

\* every document of at most n blocks; warnAt = 0: no element with id "warning"
Pages(n) ==
  UNION { { [parts |-> ps, warnAt |-> w] : w \in 0..Len(ps) } :
          ps \in SeqsUpTo(1..Len(Fragment), n) }

RECURSIVE JoinLines(_)
JoinLines(ps) ==
  IF Len(ps) = 0 THEN << >>
  ELSE IF Len(ps) = 1 THEN Fragment[ps[1]]
  ELSE Fragment[ps[1]] \o << "\n" >> \o JoinLines(Tail(ps))

BodyText(p) == JoinLines(p.parts)

WarningText(p) == Fragment[p.parts[p.warnAt]]

\* documents the run is checked on: warnAt, then the blocks
FinalPages ==
  { [parts |-> << >>,        warnAt |-> 0],    \* blank page
    [parts |-> << 14 >>,     warnAt |-> 0],    \* no known phrase
    [parts |-> << 1 >>,      warnAt |-> 1],    \* no-slots message in #warning
    [parts |-> << 14, 1 >>,  warnAt |-> 0],    \* no-slots message outside #warning
    [parts |-> << 1, 4 >>,   warnAt |-> 1],    \* no-slots warning and an error word
    [parts |-> << 2, 6 >>,   warnAt |-> 0],    \* request rejected
    [parts |-> << 14, 10 >>, warnAt |-> 1],    \* booking form, harmless #warning
    [parts |-> << 10 >>,     warnAt |-> 0],    \* booking form
    [parts |-> << 13, 8 >>,  warnAt |-> 0] }   \* booking form with "Go Back"

-----------------------------------------------------------------------------
(* The availability classifier (check_availability, after navigation) *)

\* outcomes of locating #warning and reading its text
WarningReads(p) == IF p.warnAt = 0 THEN { "absent" } ELSE { "ok", "error" }

\* outcomes of reading the text of <body>
BodyReads == { "ok", "error" }

\* mutant: the #warning element is not consulted
WarningDecides_Never(wr, wt) == FALSE

\* mutant: a #warning element that cannot be read counts as no slots
WarningDecides_UnreadableIsNoSlots(wr, wt) ==
  wr = "error" \/ (wr = "ok" /\ Contains(wt, no_citas_phrase))

\* the #warning element was read and its lower-cased text has the no-slots phrase
WarningDecides(wr, wt) == wr = "ok" /\ Contains(wt, no_citas_phrase)

\* mutant: only the first error indicator is looked for
has_error_indicator_FirstOnly(pt) == Contains(pt, error_indicators[1])

has_error_indicator(pt) ==
  \E i \in 1..Len(error_indicators) : Contains(pt, error_indicators[i])

\* mutant: all() in place of any()
has_positive_indicator_All(pt) ==
  \A i \in 1..Len(positive_indicators) : Contains(pt, positive_indicators[i])

has_positive_indicator(pt) ==
  \E i \in 1..Len(positive_indicators) : Contains(pt, positive_indicators[i])

\* mutant: the no-slots phrase is looked for before the error indicators
ClassifyPageText_NoCitasFirst(pt) ==
  IF Contains(pt, no_citas_phrase) THEN "NOT_AVAILABLE"
  ELSE IF has_error_indicator(pt) THEN "ERROR"
  ELSE IF has_positive_indicator(pt) THEN "AVAILABLE"
  ELSE "ERROR"

\* mutant: the positive indicators are looked for before the no-slots phrase
ClassifyPageText_PositiveFirst(pt) ==
  IF has_error_indicator(pt) THEN "ERROR"
  ELSE IF has_positive_indicator(pt) THEN "AVAILABLE"
  ELSE IF Contains(pt, no_citas_phrase) THEN "NOT_AVAILABLE"
  ELSE "ERROR"

\* mutant: a page with no error and no no-slots phrase counts as available
ClassifyPageText_DefaultAvailable(pt) ==
  IF has_error_indicator(pt) THEN "ERROR"
  ELSE IF Contains(pt, no_citas_phrase) THEN "NOT_AVAILABLE"
  ELSE "AVAILABLE"

\* the checks on the lower-cased text of the page, in the order of the code
ClassifyPageText(pt) ==
  IF has_error_indicator(pt) THEN "ERROR"
  ELSE IF Contains(pt, no_citas_phrase) THEN "NOT_AVAILABLE"
  ELSE IF has_positive_indicator(pt) THEN "AVAILABLE"
  ELSE "ERROR"

\* mutant: a failing read of <body> counts as no slots
Classify_BodyErrorIsNoSlots(wr, wt, br, pt) ==
  IF WarningDecides(wr, wt) THEN "NOT_AVAILABLE"
  ELSE IF br = "error" THEN "NOT_AVAILABLE"
  ELSE ClassifyPageText(pt)

\* the verdict for a read of #warning (wr, wt) and a read of <body> (br, pt);
\* a failing read of <body> is caught by the outer handler
Classify(wr, wt, br, pt) ==
  IF WarningDecides(wr, wt) THEN "NOT_AVAILABLE"
  ELSE IF br = "error" THEN "ERROR"
  ELSE ClassifyPageText(pt)

-----------------------------------------------------------------------------
(* The navigation state machine *)

Steps == { "provincia", "oficina", "tramite" }

NoClicks == [prov |-> 0, tram |-> 0, auth_a |-> 0, auth_b |-> 0]

NoReads == [warning |-> "none", body |-> "none"]

NoPage == [parts |-> << >>, warnAt |-> 0]

\* what the browser answers to the statements of wait_and_click: the wait
\* for the element, scrollIntoView, the log line after the scroll, the log
\* line of the scroll handler, the click (which may raise before or after it
\* has acted) and the log line after the click; the log lines read
\* attributes of the element and so can raise
WacInputs ==
  [locate      : { "ok", "timeout", "error" },
   scroll      : { "ok", "raise" },
   scroll_log  : { "ok", "raise" },
   handler_log : { "ok", "raise" },
   click       : { "ok", "raise", "raise_after" },
   click_log   : { "ok", "raise" }]

\* the try block of wait_and_click: the exception it ends with ("none": it
\* reaches `return True`), the scroll attempt as the code sees it ("none":
\* no scroll was attempted), whether the click statement was reached (tried)
\* and whether the click acted on the page (clicked)
WacBody(i) ==
  IF i.locate # "ok"
  THEN [exc     |-> IF i.locate = "timeout" THEN "TimeoutException" ELSE "Exception",
        scroll  |-> "none", tried |-> FALSE, clicked |-> FALSE]
  ELSE LET scrollFailed == i.scroll = "raise" \/ i.scroll_log = "raise"
           scroll       == IF scrollFailed THEN "failed" ELSE "ok"
       IN IF scrollFailed /\ i.handler_log = "raise"
          THEN [exc |-> "Exception", scroll |-> scroll, tried |-> FALSE, clicked |-> FALSE]
          ELSE IF i.click # "ok"
          THEN [exc |-> "Exception", scroll |-> scroll, tried |-> TRUE,
                clicked |-> i.click = "raise_after"]
          ELSE [exc     |-> IF i.click_log = "ok" THEN "none" ELSE "Exception",
                scroll  |-> scroll, tried |-> TRUE, clicked |-> TRUE]

\* mutant: wait_and_click has only its TimeoutException handler
WacCatches_TimeoutOnly(e) == e = "TimeoutException"

\* the handlers of wait_and_click: `except TimeoutException` and
\* `except Exception`, both of which return False
WacCatches(e) == e \in { "TimeoutException", "Exception" }

\* wait_and_click: the value returned (ret) or an exception left to the
\* caller (raised), with what the try block did
wait_and_click(i) ==
  LET b == WacBody(i) IN
  [ret     |-> b.exc = "none",
   raised  |-> b.exc # "none" /\ ~WacCatches(b.exc),
   scroll  |-> b.scroll,
   tried   |-> b.tried,
   clicked |-> b.clicked]

\* outcomes of wait_and_click
WaitAndClickOutcomes == { wait_and_click(i) : i \in WacInputs }

\* what polling document.readyState gives within the timeout
ReadyPolls == { "complete", "timeout", "error" }

\* mutant: wait_for_ready_state has only its TimeoutException handler
ReadyCatches_TimeoutOnly(e) == e = "TimeoutException"

\* the handlers of wait_for_ready_state, both of which return False
ReadyCatches(e) == e \in { "TimeoutException", "Exception" }

\* wait_for_ready_state: True when readyState became "complete", False on a
\* timeout or any other exception of the poll
wait_for_ready_state(p) ==
  LET e == CASE p = "complete" -> "none"
             [] p = "timeout"  -> "TimeoutException"
             [] p = "error"    -> "Exception"
  IN [ret |-> e = "none", raised |-> e # "none" /\ ~ReadyCatches(e)]

\* the values wait_for_ready_state returns
ReadyStateOutcomes == { wait_for_ready_state(p).ret : p \in ReadyPolls }

\* what the browser answers to a selection step before its click: the wait
\* for the dropdown, scrollIntoView on it, and selecting the option
SelectInputs ==
  [locate : { "ok", "timeout", "error" },
   scroll : { "ok", "raise" },
   pick   : { "ok", "raise" }]

\* a selection step has selected its option: the dropdown was located and
\* select_by_* did not raise; a failing scroll is only logged
Selected(i) == i.locate = "ok" /\ i.pick = "ok"

Count(b) == IF b THEN 1 ELSE 0

\* mutant: the authentication step is entered whatever use_clave is
AfterNavigation_AlwaysAuth(clave) == "auth_a"

\* mutant: the authentication step is never entered
AfterNavigation_SkipAuth(clave) == "classify"

\* check_availability after navigation returned True
AfterNavigation(clave) == IF clave THEN "auth_a" ELSE "classify"

\* mutant: a timeout of a homepage wait fails the navigation
HomeContinues_TimeoutFails(h) == h = "ready"

\* the homepage waits: a TimeoutException is logged and navigation goes on,
\* any other exception reaches the outer handler, which returns False
HomeContinues(h) == h # "error"

\* the step that follows a step in navigate_to_appointment_form
StepAfter(step, clave) ==
  CASE step = "home"      -> "provincia"
    [] step = "provincia" -> "oficina"
    [] step = "oficina"   -> "tramite"
    [] step = "tramite"   -> AfterNavigation(clave)

\* mutant: a failed step is skipped and navigation continues
NavNext_ContinueOnFailure(step, ok, clave) == StepAfter(step, clave)

\* mutant: a failed step is tried again
NavNext_RetryOnFailure(step, ok, clave) ==
  IF ~ok THEN step ELSE StepAfter(step, clave)

\* navigate_to_appointment_form: where the run goes after a step returned ok;
\* a failed step makes it return False, and check_availability returns
NavNext(step, ok, clave) ==
  IF ~ok THEN "checked" ELSE StepAfter(step, clave)

\* check_availability returns "ERROR" at once when navigation returned False
NavVerdict(next) == IF next = "checked" THEN "ERROR" ELSE "none"

\* mutant: select_provincia fails when the click on Aceptar failed
select_provincia_ret_NeedsClick(sel, o, r) == sel /\ o.ret

\* select_provincia returns True once the option is selected (sel), whatever
\* wait_and_click (o) and wait_for_ready_state (r) gave
select_provincia_ret(sel, o, r) == sel

select_oficina_ret(sel) == sel

\* the three signals the composite wait of select_tramite polls
Signals == [url : BOOLEAN, warning : BOOLEAN, clave : BOOLEAN]

\* mutant: the composite wait needs all three signals
CompositeWait_AllSignals(sig) ==
  IF sig.url /\ sig.warning /\ sig.clave THEN "changed" ELSE "timeout"

\* the composite wait ends when any signal holds, else it times out
CompositeWait(sig) ==
  IF sig.url \/ sig.warning \/ sig.clave THEN "changed" ELSE "timeout"

\* select_tramite: the wait is made only when wait_and_click returned True;
\* werr: the polled condition raised something other than a timeout
TramiteWait(sel, o, sig, werr) ==
  IF ~sel THEN "none"
  ELSE IF ~o.ret THEN "skipped"
  ELSE IF werr THEN "error"
  ELSE CompositeWait(sig)

\* mutant: a timeout of the composite wait fails select_tramite
select_tramite_ret_TimeoutFails(sel, w) == sel /\ w \notin { "error", "timeout" }

select_tramite_ret(sel, w) == sel /\ w # "error"

\* after strategy A of the authentication step the code goes on to strategy B
AfterStrategyA(ret) == "auth_b"

\* what the browser answers to strategy B: the wait for the span, finding
\* its parent, and the click on the parent
StrategyBInputs ==
  [locate : { "ok", "timeout", "error" },
   parent : { "ok", "raise" },
   click  : { "ok", "raise", "raise_after" }]

\* strategy B: the span is located and its parent clicked (ok), or locating,
\* find_element or click raised; a raising click may or may not have acted.
\* No scrollIntoView is executed on the parent.
strategy_b(i) ==
  LET reached == i.locate = "ok" /\ i.parent = "ok" IN
  [ok      |-> reached /\ i.click = "ok",
   scroll  |-> "none",
   tried   |-> reached,
   clicked |-> reached /\ i.click \in { "ok", "raise_after" }]

StrategyBOutcomes == { strategy_b(i) : i \in StrategyBInputs }

\* mutant: a failure of strategy B ends check_availability
AfterStrategyB_AbortOnFailure(ok) == IF ok THEN "classify" ELSE "checked"

\* after strategy B, whatever it gave, the code goes on to classification
AfterStrategyB(ok) == "classify"

NoAuth == [a |-> "none", b |-> "none"]

NoProvincia == [sel |-> FALSE, click |-> FALSE, ready |-> FALSE]

NoSignals == [url |-> FALSE, warning |-> FALSE, clave |-> FALSE]

\* the interactions followed statement by statement: the three selection
\* steps and the two authentication strategies
Interactions == Steps \cup { "auth_a", "auth_b" }

\* the first statement of an interaction
InterStart(fn) ==
  CASE fn \in Steps  -> "select"
    [] fn = "auth_a" -> "click"
    [] fn = "auth_b" -> "strategy_b"

\* no interaction is being followed; "none" inputs: the statement was not
\* reached
InterIdle ==
  [fn     |-> "none",
   pc     |-> "idle",
   sel_in |-> [locate |-> "none", scroll |-> "none", pick |-> "none"],
   sel    |-> FALSE,
   wac_in |-> [locate |-> "none", scroll |-> "none", scroll_log |-> "none",
               handler_log |-> "none", click |-> "none", click_log |-> "none"],
   b_in   |-> [locate |-> "none", parent |-> "none", click |-> "none"],
   out    |-> [ret |-> FALSE, raised |-> FALSE, scroll |-> "none",
               tried |-> FALSE, clicked |-> FALSE],
   sig    |-> NoSignals,
   wait   |-> "none",
   poll   |-> "none",
   ready  |-> [ret |-> FALSE, raised |-> FALSE],
   exc    |-> FALSE,
   ret    |-> "none"]

-----------------------------------------------------------------------------
(* notify.py: the notification dispatcher *)

Channels == { "email", "sms", "call", "alert", "file" }

TwilioParams == { "twilio_sid", "twilio_token", "twilio_from", "twilio_to" }

\* an optional argument is absent (None), the empty string, or a value
ArgValues == { "absent", "empty", "given" }

\* the truth value Python gives an optional string argument
Truthy(v) == v = "given"

NotifyArgs == [twilio : [TwilioParams -> ArgValues], call : BOOLEAN]

\* main(): `if args.twilio_sid and args.twilio_token and args.twilio_from
\* and args.twilio_to`
TwilioConfigured(args) == \A q \in TwilioParams : Truthy(args.twilio[q])

\* the channel main() turns to after a channel, in the order of the code;
\* the call is nested in the Twilio branch
NextChannel(ch, args) ==
  CASE ch = "email" -> IF TwilioConfigured(args) THEN "sms" ELSE "alert"
    [] ch = "sms"   -> IF args.call THEN "call" ELSE "alert"
    [] ch = "call"  -> "alert"
    [] ch = "alert" -> "file"
    [] ch = "file"  -> "summary"

\* mutant: a channel that fails ends the dispatcher
AfterChannel_StopOnFailure(ch, ok, args) ==
  IF ok THEN NextChannel(ch, args) ELSE "summary"

\* every channel function catches Exception and returns False, so main()
\* goes on to the next channel whatever the channel returned
AfterChannel(ch, ok, args) == NextChannel(ch, args)

\* mutant: any success gives status 0
NotifyExitCode_AnySuccess(success_count, total_count) ==
  IF success_count = 0 THEN 1 ELSE 0

\* main(): the exit status for the two counters
NotifyExitCode(success_count, total_count) ==
  IF success_count = 0 THEN 1
  ELSE IF success_count < total_count THEN 2
  ELSE 0

\* notify.py before it is started
NotifyIdle ==
  [pc            |-> "idle",
   args          |-> [twilio |-> [q \in TwilioParams |-> "absent"], call |-> FALSE],
   success_count |-> 0,
   total_count   |-> 0,
   attempts      |-> [ch \in Channels |-> 0],
   results       |-> [ch \in Channels |-> "none"],
   exit_code     |-> -1,
   exit_from     |-> "none"]

-----------------------------------------------------------------------------
(* The result reporter *)

\* mutant: the hold loop is entered unless the result is ERROR
KeepsBrowserOpen_UnlessError(res) == res # "ERROR"

\* mutant: the hold loop is entered whatever the result is
KeepsBrowserOpen_Always(res) == TRUE

\* run(): the browser is kept open, and run does not return, on AVAILABLE
KeepsBrowserOpen(res) == res = "AVAILABLE"

\* mutant: run() has no finally block
ClosesBrowser_Never(drv, res) == FALSE

\* mutant: the finally block quits the driver whatever result is
ClosesBrowser_Always(drv, res) == drv = "open"

\* mutant: the browser is closed only after NOT_AVAILABLE
ClosesBrowser_OnlyNotAvailable(drv, res) == drv = "open" /\ res = "NOT_AVAILABLE"

\* run(), finally: the browser is closed unless the result is AVAILABLE
ClosesBrowser(drv, res) == drv = "open" /\ res # "AVAILABLE"

\* mutant: run() returns "ERROR" in place of its result
RunReturns_Error(res) == "ERROR"

\* run(): `return result`
RunReturns(res) == res

\* mutant: the codes of AVAILABLE and NOT_AVAILABLE are exchanged
ExitCode_Swapped(res) ==
  IF res = "AVAILABLE" THEN 1
  ELSE IF res = "NOT_AVAILABLE" THEN 0
  ELSE 2

\* main(): the exit status for the value run() returned
ExitCode(res) ==
  IF res = "AVAILABLE" THEN 0
  ELSE IF res = "NOT_AVAILABLE" THEN 1
  ELSE 2

\* exit status of the interpreter when KeyboardInterrupt leaves main(), which
\* catches SystemExit and Exception only: 1, or death by SIGINT (130)
InterruptExitCodes == { 1, 130 }

-----------------------------------------------------------------------------
(* Initial state: the process has started, nothing is imported yet *)

Init ==
  /\ use_clave \in BOOLEAN
  /\ pc = "import"
  /\ driver = "none"
  /\ result = "unset"
  /\ verdict = "none"
  /\ run_ret = "none"
  /\ exc = "none"
  /\ exit_code = -1
  /\ exit_from = "none"
  /\ steps = << >>
  /\ step_res = [s \in Steps |-> "none"]
  /\ home = "none"
  /\ clicks = NoClicks
  /\ tram_wait = "none"
  /\ page = NoPage
  /\ reads = NoReads
  /\ warning_text = << >>
  /\ page_text = << >>
  /\ holdTicks = 0
  /\ sigint = FALSE
  /\ auth_res = NoAuth
  /\ prov_obs = NoProvincia
  /\ notify = NotifyIdle
  /\ inter = InterIdle

\* the document the browser shows when classification starts
LoadFinalPage == page' \in IF pc' = "classify" THEN FinalPages ELSE { page }

-----------------------------------------------------------------------------
(* Actions *)

\* module level: the selenium import guard
ImportSelenium ==
  /\ pc = "import"
  /\ \/ pc' = "main" /\ UNCHANGED << exit_code, exit_from >>
     \/ pc' = "exited" /\ exit_code' = 1 /\ exit_from' = "import"
  /\ UNCHANGED << use_clave, driver, result, verdict, run_ret, exc, steps, step_res,
                  home, clicks, tram_wait, page, reads, warning_text, page_text,
                  holdTicks >>
  /\ UNCHANGED << sigint, auth_res, prov_obs, notify, inter >>

\* main() up to the call of run(): argument parsing and CitaChecker(...);
\* a parse error or an exception there ends the process with status 2, and
\* -h/--help prints the usage and ends it with status 0 (argparse calls
\* sys.exit, and main() re-raises SystemExit)
Main ==
  /\ pc = "main"
  /\ \/ pc' = "run" /\ UNCHANGED << exit_code, exit_from >>
     \/ pc' = "exited" /\ exit_code' = 2 /\ exit_from' = "main_except"
     \/ pc' = "exited" /\ exit_code' = 0 /\ exit_from' = "help"
  /\ UNCHANGED << use_clave, driver, result, verdict, run_ret, exc, steps, step_res,
                  home, clicks, tram_wait, page, reads, warning_text, page_text,
                  holdTicks >>
  /\ UNCHANGED << sigint, auth_res, prov_obs, notify, inter >>

\* run(): result = "ERROR", then setup_firefox; a failed setup returns "ERROR",
\* with or without a driver already created
RunSetup ==
  /\ pc = "run"
  /\ result' = "ERROR"
  /\ \/ driver' = "open" /\ pc' = "home" /\ UNCHANGED run_ret
     \/ driver' \in { "none", "open" } /\ pc' = "finally" /\ run_ret' = "ERROR"
  /\ UNCHANGED << use_clave, verdict, exc, exit_code, exit_from, steps, step_res, home, clicks,
                  tram_wait, page, reads, warning_text, page_text, holdTicks >>
  /\ UNCHANGED << sigint, auth_res, prov_obs, notify, inter >>

\* navigate_to_appointment_form: load the homepage, wait for readyState and a
\* select; a timeout of either wait is logged, any other error fails navigation
LoadHome ==
  /\ pc = "home"
  /\ steps' = Append(steps, "home")
  /\ \E h \in { "ready", "timeout", "error" } :
       /\ home' = h
       /\ pc' = NavNext("home", HomeContinues(h), use_clave)
       /\ verdict' = NavVerdict(pc')
  /\ UNCHANGED << use_clave, driver, result, run_ret, exc, exit_code, exit_from, step_res, clicks,
                  tram_wait, page, reads, warning_text, page_text, holdTicks >>
  /\ UNCHANGED << sigint, auth_res, prov_obs, notify, inter >>

\* select_provincia; sel: the dropdown was located and the option selected
\* (otherwise the step's handler returns False)
SelectProvincia ==
  /\ pc = "provincia"
  /\ steps' = Append(steps, "provincia")
  /\ \E sel \in BOOLEAN, o \in WaitAndClickOutcomes, r \in ReadyStateOutcomes :
       LET ok == select_provincia_ret(sel, o, r) IN
       /\ step_res' = [step_res EXCEPT !["provincia"] = IF ok THEN "ok" ELSE "fail"]
       /\ clicks' = [clicks EXCEPT !.prov = @ + Count(sel /\ o.clicked)]
       /\ prov_obs' = [sel |-> sel, click |-> sel /\ o.ret, ready |-> sel /\ r]
       /\ pc' = NavNext("provincia", ok, use_clave)
       /\ verdict' = NavVerdict(pc')
  /\ UNCHANGED << use_clave, driver, result, run_ret, exc, exit_code, exit_from, home, tram_wait,
                  page, reads, warning_text, page_text, holdTicks >>
  /\ UNCHANGED << sigint, auth_res, notify, inter >>

\* select_oficina; sel: the dropdown was located and the option selected
SelectOficina ==
  /\ pc = "oficina"
  /\ steps' = Append(steps, "oficina")
  /\ \E sel \in BOOLEAN :
       LET ok == select_oficina_ret(sel) IN
       /\ step_res' = [step_res EXCEPT !["oficina"] = IF ok THEN "ok" ELSE "fail"]
       /\ pc' = NavNext("oficina", ok, use_clave)
       /\ verdict' = NavVerdict(pc')
  /\ UNCHANGED << use_clave, driver, result, run_ret, exc, exit_code, exit_from, home, clicks,
                  tram_wait, page, reads, warning_text, page_text, holdTicks >>
  /\ UNCHANGED << sigint, auth_res, prov_obs, notify, inter >>

\* select_tramite; sel: the dropdown was located, the option selected and
\* current_url read, so that wait_and_click is reached
SelectTramite ==
  /\ pc = "tramite"
  /\ steps' = Append(steps, "tramite")
  /\ \E sel \in BOOLEAN, o \in WaitAndClickOutcomes, sig \in Signals, werr \in BOOLEAN :
       LET w  == TramiteWait(sel, o, sig, werr)
           ok == select_tramite_ret(sel, w) IN
       /\ tram_wait' = w
       /\ step_res' = [step_res EXCEPT !["tramite"] = IF ok THEN "ok" ELSE "fail"]
       /\ clicks' = [clicks EXCEPT !.tram = @ + Count(sel /\ o.clicked)]
       /\ pc' = NavNext("tramite", ok, use_clave)
       /\ verdict' = NavVerdict(pc')
  /\ LoadFinalPage
  /\ UNCHANGED << use_clave, driver, result, run_ret, exc, exit_code, exit_from, home, reads,
                  warning_text, page_text, holdTicks >>
  /\ UNCHANGED << sigint, auth_res, prov_obs, notify, inter >>

\* authentication, strategy A: wait_and_click on btnAccesoClave
AuthA ==
  /\ pc = "auth_a"
  /\ steps' = Append(steps, "auth")
  /\ \E o \in WaitAndClickOutcomes :
       /\ clicks' = [clicks EXCEPT !.auth_a = @ + Count(o.clicked)]
       /\ auth_res' = [auth_res EXCEPT !.a = IF o.ret THEN "ok" ELSE "fail"]
       /\ pc' = AfterStrategyA(o.ret)
  /\ LoadFinalPage
  /\ UNCHANGED << use_clave, driver, result, verdict, run_ret, exc, exit_code, exit_from, step_res,
                  home, tram_wait, reads, warning_text, page_text, holdTicks >>
  /\ UNCHANGED << sigint, prov_obs, notify, inter >>

\* authentication, strategy B: locate the span, click its parent; any failure
\* is logged and classification follows
AuthB ==
  /\ pc = "auth_b"
  /\ \E o \in StrategyBOutcomes :
       /\ clicks' = [clicks EXCEPT !.auth_b = @ + Count(o.clicked)]
       /\ auth_res' = [auth_res EXCEPT !.b = IF o.ok THEN "ok" ELSE "fail"]
       /\ pc' = AfterStrategyB(o.ok)
  /\ LoadFinalPage
  /\ UNCHANGED << use_clave, driver, result, verdict, run_ret, exc, exit_code, exit_from, steps,
                  step_res, home, tram_wait, reads, warning_text, page_text, holdTicks >>
  /\ UNCHANGED << sigint, prov_obs, notify, inter >>

\* check_availability, classification: read #warning, then <body>, and return
ClassifyPage ==
  /\ pc = "classify"
  /\ steps' = Append(steps, "classify")
  /\ \E wr \in WarningReads(page), br \in BodyReads :
       LET wt    == IF wr = "ok" THEN Lower(WarningText(page)) ELSE << >>
           early == WarningDecides(wr, wt)
           pt    == IF ~early /\ br = "ok" THEN Lower(BodyText(page)) ELSE << >>
       IN /\ warning_text' = wt
          /\ page_text' = pt
          /\ reads' = [warning |-> wr, body |-> IF early THEN "none" ELSE br]
          /\ verdict' = Classify(wr, wt, br, pt)
  /\ pc' = "checked"
  /\ UNCHANGED << use_clave, driver, result, run_ret, exc, exit_code, exit_from, step_res, home,
                  clicks, tram_wait, page, holdTicks >>
  /\ UNCHANGED << sigint, auth_res, prov_obs, notify, inter >>

\* run(): result = check_availability(); AVAILABLE enters the hold loop, any
\* other result is returned
RunChecked ==
  /\ pc = "checked"
  /\ result' = verdict
  /\ IF KeepsBrowserOpen(verdict)
       THEN pc' = "hold" /\ UNCHANGED run_ret
       ELSE pc' = "finally" /\ run_ret' = RunReturns(verdict)
  /\ UNCHANGED << use_clave, driver, verdict, exc, exit_code, exit_from, steps, step_res, home,
                  clicks, tram_wait, page, reads, warning_text, page_text, holdTicks >>
  /\ UNCHANGED << sigint, auth_res, prov_obs, notify, inter >>

\* run(): one more minute in the hold loop; time.sleep(60) raises nothing
\* but KeyboardInterrupt, so the loop is left by Interrupt alone
HoldTick ==
  /\ pc = "hold"
  /\ holdTicks < MaxHoldTicks
  /\ holdTicks' = holdTicks + 1
  /\ UNCHANGED << use_clave, pc, driver, result, verdict, run_ret, exc, exit_code, exit_from,
                  steps, step_res, home, clicks, tram_wait, page, reads, warning_text,
                  page_text >>
  /\ UNCHANGED << sigint, auth_res, prov_obs, notify, inter >>

InRun == { "run", "home", "provincia", "oficina", "tramite", "auth_a", "auth_b",
           "classify", "checked" }

\* Ctrl+C while run() executes its try block: caught in the hold loop, where
\* run() then returns result; anywhere else KeyboardInterrupt leaves run(),
\* also between the assignment of result and the try of the hold loop (the
\* log lines before the loop)
Interrupt ==
  /\ \/ /\ pc = "hold"
        /\ run_ret' = RunReturns(result)
        /\ UNCHANGED << exc, driver, result >>
     \/ /\ pc = "hold"
        /\ holdTicks = 0
        /\ exc' = "KeyboardInterrupt"
        /\ UNCHANGED << run_ret, driver, result >>
     \/ /\ pc \in InRun \ { "run" }
        /\ exc' = "KeyboardInterrupt"
        /\ UNCHANGED << run_ret, driver, result >>
     \/ /\ pc = "run"
        /\ exc' = "KeyboardInterrupt"
        /\ result' = "ERROR"
        /\ driver' \in { "none", "open" }
        /\ UNCHANGED run_ret
  /\ pc' = "finally"
  /\ sigint' = TRUE
  /\ UNCHANGED << use_clave, verdict, exit_code, exit_from, steps, step_res, home, clicks,
                  tram_wait, page, reads, warning_text, page_text, holdTicks >>
  /\ UNCHANGED << auth_res, prov_obs, notify, inter >>

\* run(), finally: quit the driver unless result is AVAILABLE; then run()
\* returns to main(), or the interrupt leaves main() and ends the process
RunFinally ==
  /\ pc = "finally"
  /\ driver' = IF ClosesBrowser(driver, result) THEN "quit" ELSE driver
  /\ IF exc = "none"
       THEN pc' = "main_exit" /\ UNCHANGED << exit_code, exit_from >>
       ELSE pc' = "exited" /\ exit_code' \in InterruptExitCodes /\ exit_from' = "interrupt"
  /\ UNCHANGED << use_clave, result, verdict, run_ret, exc, steps, step_res, home,
                  clicks, tram_wait, page, reads, warning_text, page_text, holdTicks >>
  /\ UNCHANGED << sigint, auth_res, prov_obs, notify, inter >>

\* main(): sys.exit with the code of the result
MainExit ==
  /\ pc = "main_exit"
  /\ exit_code' = ExitCode(run_ret)
  /\ exit_from' = "main"
  /\ pc' = "exited"
  /\ UNCHANGED << use_clave, driver, result, verdict, run_ret, exc, steps, step_res,
                  home, clicks, tram_wait, page, reads, warning_text, page_text,
                  holdTicks >>
  /\ UNCHANGED << sigint, auth_res, prov_obs, notify, inter >>

Next ==
  \/ ImportSelenium
  \/ Main
  \/ RunSetup
  \/ LoadHome
  \/ SelectProvincia
  \/ SelectOficina
  \/ SelectTramite
  \/ AuthA
  \/ AuthB
  \/ ClassifyPage
  \/ RunChecked
  \/ HoldTick
  \/ Interrupt
  \/ RunFinally
  \/ MainExit

Spec == Init /\ [][Next]_vars

\* the steps of the program itself: everything but the external interrupt
ProgramStep ==
  \/ ImportSelenium
  \/ Main
  \/ RunSetup
  \/ LoadHome
  \/ SelectProvincia
  \/ SelectOficina
  \/ SelectTramite
  \/ AuthA
  \/ AuthB
  \/ ClassifyPage
  \/ RunChecked
  \/ HoldTick
  \/ RunFinally
  \/ MainExit

\* the single thread of the program keeps running: every call and every
\* wait of a step returns (each wait has a timeout), so an enabled step of
\* the program is eventually taken
FairSpec == Spec /\ WF_vars(ProgramStep)

-----------------------------------------------------------------------------
(* The classifier on every document of at most MaxParts blocks: the state  *)
(* when classification starts after a successful navigation.               *)

InitClassify ==
  /\ use_clave = TRUE
  /\ pc = "classify"
  /\ driver = "open"
  /\ result = "ERROR"
  /\ verdict = "none"
  /\ run_ret = "none"
  /\ exc = "none"
  /\ exit_code = -1
  /\ exit_from = "none"
  /\ steps = << "home", "provincia", "oficina", "tramite" >>
             \o (IF use_clave THEN << "auth" >> ELSE << >>)
  /\ step_res = [s \in Steps |-> "ok"]
  /\ home = "ready"
  /\ clicks = [NoClicks EXCEPT !.prov = 1, !.tram = 1]
  /\ tram_wait = "changed"
  /\ page \in Pages(MaxParts)
  /\ reads = NoReads
  /\ warning_text = << >>
  /\ page_text = << >>
  /\ holdTicks = 0
  /\ sigint = FALSE
  /\ auth_res = [a |-> "fail", b |-> "fail"]
  /\ prov_obs = [sel |-> TRUE, click |-> TRUE, ready |-> TRUE]
  /\ notify = NotifyIdle
  /\ inter = InterIdle

NextClassify == ClassifyPage

-----------------------------------------------------------------------------
(* notify.py, started with any combination of the optional arguments *)

\* the variables of a run of check-cita.py
run_vars ==
  << use_clave, pc, driver, result, verdict, run_ret, exc, exit_code, exit_from,
     steps, step_res, home, clicks, tram_wait, page, reads, warning_text,
     page_text, holdTicks, sigint, auth_res, prov_obs >>

\* the variables of check-cita.py, which notify.py does not touch
checker_vars == << run_vars, inter >>

InitNotify ==
  /\ use_clave = TRUE
  /\ pc = "import"
  /\ driver = "none"
  /\ result = "unset"
  /\ verdict = "none"
  /\ run_ret = "none"
  /\ exc = "none"
  /\ exit_code = -1
  /\ exit_from = "none"
  /\ steps = << >>
  /\ step_res = [s \in Steps |-> "none"]
  /\ home = "none"
  /\ clicks = NoClicks
  /\ tram_wait = "none"
  /\ page = NoPage
  /\ reads = NoReads
  /\ warning_text = << >>
  /\ page_text = << >>
  /\ holdTicks = 0
  /\ sigint = FALSE
  /\ auth_res = NoAuth
  /\ prov_obs = NoProvincia
  /\ inter = InterIdle
  /\ \E a \in NotifyArgs : notify = [NotifyIdle EXCEPT !.pc = "parse", !.args = a]

\* main(): parse_args; a missing required argument ends the process with
\* status 2, otherwise both counters start at 0
NotifyParse ==
  /\ notify.pc = "parse"
  /\ \/ notify' = [notify EXCEPT !.pc = "email"]
     \/ notify' = [notify EXCEPT !.pc = "exited", !.exit_code = 2,
                                 !.exit_from = "argparse"]
  /\ UNCHANGED checker_vars

\* one channel of main(): total_count += 1, call the channel function, and
\* success_count += 1 when it returned True
Attempt(ch) ==
  /\ notify.pc = ch
  /\ \E ok \in BOOLEAN :
       notify' = [notify EXCEPT
                    !.total_count   = @ + 1,
                    !.success_count = @ + Count(ok),
                    !.attempts[ch]  = @ + 1,
                    !.results[ch]   = IF ok THEN "ok" ELSE "fail",
                    !.pc            = AfterChannel(ch, ok, notify.args)]
  /\ UNCHANGED checker_vars

NotifyEmail == Attempt("email")

NotifySms == Attempt("sms")

NotifyCall == Attempt("call")

NotifyAlert == Attempt("alert")

NotifyFile == Attempt("file")

\* main(): the summary and sys.exit
NotifyExit ==
  /\ notify.pc = "summary"
  /\ notify' = [notify EXCEPT
                  !.pc        = "exited",
                  !.exit_code = NotifyExitCode(notify.success_count, notify.total_count),
                  !.exit_from = "summary"]
  /\ UNCHANGED checker_vars

NextNotify ==
  \/ NotifyParse
  \/ NotifyEmail
  \/ NotifySms
  \/ NotifyCall
  \/ NotifyAlert
  \/ NotifyFile
  \/ NotifyExit

SpecNotify == InitNotify /\ [][NextNotify]_vars

SpecClassify == InitClassify /\ [][NextClassify]_vars

-----------------------------------------------------------------------------
(* One interaction, statement by statement: a selection step with its      *)
(* click, composite wait and ready wait, or an authentication strategy,    *)
(* against every answer the browser can give.                              *)

InitInteract ==
  /\ use_clave = TRUE
  /\ pc = "import"
  /\ driver = "none"
  /\ result = "unset"
  /\ verdict = "none"
  /\ run_ret = "none"
  /\ exc = "none"
  /\ exit_code = -1
  /\ exit_from = "none"
  /\ steps = << >>
  /\ step_res = [s \in Steps |-> "none"]
  /\ home = "none"
  /\ clicks = NoClicks
  /\ tram_wait = "none"
  /\ page = NoPage
  /\ reads = NoReads
  /\ warning_text = << >>
  /\ page_text = << >>
  /\ holdTicks = 0
  /\ sigint = FALSE
  /\ auth_res = NoAuth
  /\ prov_obs = NoProvincia
  /\ notify = NotifyIdle
  /\ \E fn \in Interactions :
       inter = [InterIdle EXCEPT !.fn = fn, !.pc = InterStart(fn)]

\* a selection step up to its click: wait for the dropdown, scroll it into
\* view (a failure is logged), select the option; select_oficina returns
\* after it, and any exception reaches the handler of the step
InterSelect ==
  /\ inter.pc = "select"
  /\ \E i \in SelectInputs :
       inter' = [inter EXCEPT
                   !.sel_in = i,
                   !.sel    = Selected(i),
                   !.pc     = IF ~Selected(i) \/ inter.fn = "oficina"
                              THEN "return" ELSE "click"]
  /\ UNCHANGED << run_vars, notify >>

\* the call of wait_and_click in select_provincia, select_tramite and
\* strategy A
InterClick ==
  /\ inter.pc = "click"
  /\ \E i \in WacInputs :
       LET o == wait_and_click(i) IN
       inter' = [inter EXCEPT
                   !.wac_in = i,
                   !.out    = o,
                   !.exc    = o.raised,
                   !.pc     = IF o.raised THEN "return"
                              ELSE CASE inter.fn = "provincia" -> "ready"
                                     [] inter.fn = "tramite"   -> "wait"
                                     [] inter.fn = "auth_a"    -> "return"]
  /\ UNCHANGED << run_vars, notify >>

\* select_tramite after wait_and_click: the composite wait, made only when
\* the click returned True
InterWait ==
  /\ inter.pc = "wait"
  /\ \E sig \in Signals, werr \in BOOLEAN :
       LET w == TramiteWait(inter.sel, inter.out, sig, werr) IN
       inter' = [inter EXCEPT
                   !.wait = w,
                   !.sig  = IF w \in { "changed", "timeout" } THEN sig ELSE NoSignals,
                   !.pc   = IF w \in { "changed", "timeout" } THEN "ready" ELSE "return"]
  /\ UNCHANGED << run_vars, notify >>

\* the call of wait_for_ready_state in select_provincia and select_tramite
InterReady ==
  /\ inter.pc = "ready"
  /\ \E p \in ReadyPolls :
       LET r == wait_for_ready_state(p) IN
       inter' = [inter EXCEPT
                   !.poll  = p,
                   !.ready = r,
                   !.exc   = r.raised,
                   !.pc    = "return"]
  /\ UNCHANGED << run_vars, notify >>

\* strategy B of the authentication step
InterStrategyB ==
  /\ inter.pc = "strategy_b"
  /\ \E i \in StrategyBInputs :
       LET o == strategy_b(i) IN
       inter' = [inter EXCEPT
                   !.b_in = i,
                   !.out  = [ret |-> o.ok, raised |-> FALSE, scroll |-> o.scroll,
                             tried |-> o.tried, clicked |-> o.clicked],
                   !.pc   = "return"]
  /\ UNCHANGED << run_vars, notify >>

\* the value the interaction gives its caller; an exception raised inside a
\* selection step reaches its `except Exception`, which returns False
InterReturn ==
  /\ inter.pc = "return"
  /\ LET ok == CASE inter.fn = "provincia" ->
                      select_provincia_ret(inter.sel, inter.out, inter.ready.ret)
                 [] inter.fn = "oficina"   -> select_oficina_ret(inter.sel)
                 [] inter.fn = "tramite"   -> select_tramite_ret(inter.sel, inter.wait)
                 [] OTHER                  -> inter.out.ret
     IN inter' = [inter EXCEPT
                    !.ret = IF ok /\ ~inter.exc THEN "True" ELSE "False",
                    !.pc  = "done"]
  /\ UNCHANGED << run_vars, notify >>

NextInteract ==
  \/ InterSelect
  \/ InterClick
  \/ InterWait
  \/ InterReady
  \/ InterStrategyB
  \/ InterReturn

SpecInteract == InitInteract /\ [][NextInteract]_vars

-----------------------------------------------------------------------------
(* Properties *)

Ran(s) == \E i \in 1..Len(steps) : steps[i] = s

AllSelected == \A s \in Steps : step_res[s] = "ok"

IsPrefix(a, b) == Len(a) <= Len(b) /\ SubSeq(b, 1, Len(a)) = a

\* the text of the document, lower-cased, and whether it has a phrase of a list
DocText == Lower(BodyText(page))

ContainsAny(t, phrases) == \E i \in 1..Len(phrases) : Contains(t, phrases[i])

\* #warning was read and its text has the no-slots phrase
WarningHasNoCitas ==
  reads.warning = "ok" /\ Contains(Lower(WarningText(page)), no_citas_phrase)

\* classification has come to a verdict without failing to read <body>
Classified == pc = "checked" /\ Ran("classify") /\ reads.body # "error"

\* C1: check_availability returns AVAILABLE or NOT_AVAILABLE only after the
\* province, office and procedure steps have each run and returned success
\* (and, with use_clave, after the authentication step was entered); whenever
\* it returns without all three successes, it returns ERROR.
C1_VerdictOnlyAfterAllSteps ==
  verdict # "none" =>
    /\ verdict \in { "AVAILABLE", "NOT_AVAILABLE" } =>
         /\ AllSelected
         /\ \A s \in Steps : Ran(s)
         /\ use_clave => Ran("auth")
    /\ ~AllSelected => verdict = "ERROR"

C1_Witness ==
  /\ verdict = "NOT_AVAILABLE"
  /\ use_clave
  /\ AllSelected
  /\ Ran("auth")

\* C2: once a selection step has failed, it is the last step of the run: no
\* later selection step, no authentication and no classification happens,
\* check_availability has returned ERROR, and run returns ERROR (exit code 2).
C2_FailedStepEndsNavigation ==
  \A s \in Steps :
    step_res[s] = "fail" =>
      /\ steps[Len(steps)] = s
      /\ verdict = "ERROR"
      /\ clicks.auth_a = 0 /\ clicks.auth_b = 0
      /\ reads = NoReads
      /\ run_ret \in { "none", "ERROR" }
      /\ exit_from = "main" => exit_code = 2

C2_Witness ==
  /\ step_res["oficina"] = "fail"
  /\ pc = "exited"
  /\ run_ret = "ERROR"
  /\ exit_code = 2

\* C3: the steps of a run start in the order home, province, office,
\* procedure, authentication (only with use_clave), classification, none
\* skipped and none repeated, each after the one before it has finished.
ExpectedOrder ==
  << "home", "provincia", "oficina", "tramite" >>
  \o (IF use_clave THEN << "auth" >> ELSE << >>) \o << "classify" >>

C3_StrictStepOrder ==
  /\ IsPrefix(steps, ExpectedOrder)
  /\ Ran("provincia") => home \in { "ready", "timeout" }
  /\ Ran("oficina") => step_res["provincia"] = "ok"
  /\ Ran("tramite") => step_res["oficina"] = "ok"
  /\ Ran("auth") \/ Ran("classify") => step_res["tramite"] = "ok"
  /\ (use_clave /\ Ran("classify")) => pc \notin { "auth_a", "auth_b" }

C3_Witness ==
  /\ use_clave
  /\ steps = << "home", "provincia", "oficina", "tramite", "auth", "classify" >>
  /\ clicks.auth_b = 1

\* C4: when main exits with the value run returned, the exit code is 0 for
\* AVAILABLE, 1 for NOT_AVAILABLE and 2 for anything else; an exception in
\* main gives 2.
C4_ExitCodeOfVerdict ==
  /\ exit_from = "main" =>
       /\ run_ret # "none"
       /\ run_ret = "AVAILABLE" => exit_code = 0
       /\ run_ret = "NOT_AVAILABLE" => exit_code = 1
       /\ run_ret \notin { "AVAILABLE", "NOT_AVAILABLE" } => exit_code = 2
  /\ exit_from = "main_except" => exit_code = 2
  /\ (pc = "exited" /\ run_ret # "none") => exit_from = "main"

C4_Witness ==
  /\ pc = "exited"
  /\ run_ret = "NOT_AVAILABLE"
  /\ exit_code = 1

\* C5: when #warning is read and its text has the no-slots phrase, the verdict
\* is NOT_AVAILABLE whatever the text of the page is, and <body> is not read.
C5_WarningTakesPriority ==
  (pc = "checked" /\ Ran("classify") /\ WarningHasNoCitas) =>
    /\ verdict = "NOT_AVAILABLE"
    /\ reads.body = "none"

C5_Witness ==
  /\ pc = "checked"
  /\ WarningHasNoCitas
  /\ verdict = "NOT_AVAILABLE"
  /\ reads.body = "none"
  /\ Contains(DocText, positive_indicators[2])

\* C6 as stated: a page text with an error-set phrase gives ERROR whatever
\* else the page and the #warning element hold.
C6_Original_ErrorPhraseAlwaysError ==
  (Classified /\ ContainsAny(DocText, error_indicators)) => verdict = "ERROR"

\* C6, amended: a page text with an error-set phrase gives ERROR, whatever
\* other phrases it has, unless #warning was read and has the no-slots phrase.
C6_ErrorPhraseUnlessWarning ==
  (Classified /\ ContainsAny(DocText, error_indicators) /\ ~WarningHasNoCitas)
    => verdict = "ERROR"

C6_Witness ==
  /\ Classified
  /\ reads.warning = "ok"
  /\ ContainsAny(page_text, error_indicators)
  /\ Contains(page_text, no_citas_phrase)
  /\ verdict = "ERROR"

\* C7: a page text with the no-slots phrase and no error-set phrase gives
\* NOT_AVAILABLE, also when it has a positive-set phrase.
C7_NoCitasWithoutError ==
  (Classified /\ Contains(DocText, no_citas_phrase)
              /\ ~ContainsAny(DocText, error_indicators))
    => verdict = "NOT_AVAILABLE"

C7_Witness ==
  /\ Classified
  /\ reads.body = "ok"
  /\ Contains(page_text, no_citas_phrase)
  /\ Contains(page_text, positive_indicators[2])
  /\ verdict = "NOT_AVAILABLE"

\* C8: a page text with a positive-set phrase, without the no-slots phrase
\* and without an error-set phrase, gives AVAILABLE.
C8_PositiveOnlyAvailable ==
  (Classified /\ ContainsAny(DocText, positive_indicators)
              /\ ~Contains(DocText, no_citas_phrase)
              /\ ~ContainsAny(DocText, error_indicators))
    => verdict = "AVAILABLE"

C8_Witness ==
  /\ Classified
  /\ reads.warning = "ok"
  /\ Contains(page_text, positive_indicators[5])
  /\ ~Contains(page_text, positive_indicators[1])
  /\ verdict = "AVAILABLE"

C11_HoldOnlyOnAvailable ==
  /\ pc = "hold" => (verdict = "AVAILABLE" /\ result = "AVAILABLE")
  /\ holdTicks > 0 => verdict = "AVAILABLE"
  /\ (result = "AVAILABLE" /\ pc # "hold") => sigint
  /\ verdict \in { "NOT_AVAILABLE", "ERROR" } => pc # "hold"

C11_Witness ==
  /\ pc = "finally"
  /\ verdict = "AVAILABLE"
  /\ holdTicks = 1
  /\ sigint

\* C12: when run has returned ERROR or NOT_AVAILABLE, a browser session that
\* was created has had quit() called on it, also when setup failed after the
\* driver was created.
C12_BrowserReleasedUnlessAvailable ==
  (pc \in { "main_exit", "exited" } /\ run_ret \in { "ERROR", "NOT_AVAILABLE" })
    => driver # "open"

C12_Witness ==
  /\ pc = "main_exit"
  /\ run_ret = "ERROR"
  /\ verdict = "none"
  /\ driver = "quit"

\* C13: every behaviour of the program either ends with an exit code, or
\* stays for ever in the hold loop with the verdict AVAILABLE; so a run with
\* verdict NOT_AVAILABLE or ERROR always terminates.
C13_TerminatesUnlessHolding ==
  \/ <>(pc = "exited" /\ exit_code >= 0)
  \/ <>[](pc = "hold" /\ verdict = "AVAILABLE")

C13_Witness ==
  /\ pc = "exited"
  /\ exit_from = "main"
  /\ home = "timeout"
  /\ tram_wait = "timeout"
  /\ ~prov_obs.ready
  /\ verdict = "NOT_AVAILABLE"

\* C14: the value run returns is the value check_availability returned, and
\* the exit code is the code of that value, also after the hold loop was left
\* by an interrupt.
C14_VerdictIsReturned ==
  /\ (verdict # "none" /\ run_ret # "none") => run_ret = verdict
  /\ (verdict # "none" /\ pc \in { "hold", "finally", "main_exit", "exited" }
        /\ exc = "none") => result = verdict
  /\ (verdict # "none" /\ exit_from = "main") =>
       /\ verdict = "AVAILABLE" => exit_code = 0
       /\ verdict = "NOT_AVAILABLE" => exit_code = 1
       /\ verdict = "ERROR" => exit_code = 2

C14_Witness ==
  /\ pc = "exited"
  /\ sigint
  /\ holdTicks = MaxHoldTicks
  /\ verdict = "AVAILABLE"
  /\ run_ret = "AVAILABLE"
  /\ exit_code = 0

Configured(ch) ==
  CASE ch = "sms"  -> \A q \in TwilioParams : notify.args.twilio[q] = "given"
    [] ch = "call" -> (\A q \in TwilioParams : notify.args.twilio[q] = "given")
                      /\ notify.args.call
    [] OTHER       -> TRUE

\* C16: every configured channel is attempted exactly once, whatever the
\* channels before it returned, no other channel is attempted, and the
\* dispatcher always reaches its summary: no failure of a channel ends it.
C16_ChannelsIndependent ==
  /\ \A ch \in Channels : notify.attempts[ch] <= Count(Configured(ch))
  /\ notify.pc \in { "summary", "exited" } /\ notify.exit_from # "argparse" =>
       \A ch \in Channels : notify.attempts[ch] = Count(Configured(ch))
  /\ notify.exit_from # "argparse" =>
       notify.total_count = notify.attempts["email"] + notify.attempts["sms"]
                            + notify.attempts["call"] + notify.attempts["alert"]
                            + notify.attempts["file"]

C16_Witness ==
  /\ notify.pc = "exited"
  /\ notify.results["email"] = "fail"
  /\ notify.results["sms"] = "fail"
  /\ notify.results["call"] = "ok"
  /\ notify.results["alert"] = "fail"
  /\ notify.results["file"] = "ok"

\* C17 as stated: once strategy A has succeeded, strategy B is not attempted,
\* and a run makes at most one authentication click.
C17_FirstSuccessWins ==
  /\ auth_res.a = "ok" => auth_res.b = "none"
  /\ clicks.auth_a + clicks.auth_b <= 1

\* the verdict the classification rules give for the document and the reads
RuleVerdict ==
  IF WarningHasNoCitas THEN "NOT_AVAILABLE"
  ELSE IF reads.body = "error" THEN "ERROR"
  ELSE IF ContainsAny(DocText, error_indicators) THEN "ERROR"
  ELSE IF Contains(DocText, no_citas_phrase) THEN "NOT_AVAILABLE"
  ELSE IF ContainsAny(DocText, positive_indicators) THEN "AVAILABLE"
  ELSE "ERROR"

\* C18: when both authentication strategies have failed the run goes on to
\* classification, and the verdict is the one the classification rules give
\* for the page that is loaded.
C18_AuthFailureIsNotFatal ==
  (auth_res.a = "fail" /\ auth_res.b = "fail") =>
    /\ pc = "classify" \/ Ran("classify") \/ sigint
    /\ (pc = "checked" /\ Ran("classify")) => verdict = RuleVerdict

C18_Witness ==
  /\ auth_res.a = "fail"
  /\ auth_res.b = "fail"
  /\ clicks.auth_a = 0
  /\ clicks.auth_b = 0
  /\ pc = "checked"
  /\ verdict = "AVAILABLE"

\* C19: without use_clave no authentication strategy is tried and no
\* authentication click is made, and classification follows the procedure
\* step directly; with use_clave both strategies have been tried before
\* classification starts.
C19_AuthOnlyWithUseClave ==
  /\ ~use_clave =>
       /\ ~Ran("auth")
       /\ auth_res = NoAuth
       /\ clicks.auth_a = 0 /\ clicks.auth_b = 0
  /\ (~use_clave /\ Ran("classify")) => steps[Len(steps) - 1] = "tramite"
  /\ (use_clave /\ (pc = "classify" \/ Ran("classify"))) =>
       /\ Ran("auth")
       /\ auth_res.a # "none"
       /\ auth_res.b # "none"

C19_Witness ==
  /\ ~use_clave
  /\ pc = "checked"
  /\ Ran("classify")
  /\ verdict = "NOT_AVAILABLE"
  /\ clicks.tram = 1

\* C20: once the province control is located and the option selected,
\* select_provincia returns success, whether or not the click on Aceptar
\* succeeded and whether or not the page became ready, and the office step
\* follows.
C20_ProvinciaSubmitNotFatal ==
  prov_obs.sel =>
    /\ step_res["provincia"] = "ok"
    /\ pc = "oficina" \/ Ran("oficina") \/ sigint

C20_Witness ==
  /\ prov_obs.sel
  /\ ~prov_obs.click
  /\ ~prov_obs.ready
  /\ clicks.prov = 0
  /\ step_res["oficina"] = "ok"

\* wait_and_click was called in the interaction that is followed
WacCalled == inter.wac_in.locate # "none"

\* C21: the composite wait of the procedure step ends with "changed" exactly
\* when at least one of the three signals holds, whichever it is and whatever
\* the other two are; it times out only when none holds.
C21_CompositeWaitIsRace ==
  /\ inter.wait # "none" => inter.fn = "tramite"
  /\ inter.wait \in { "changed", "timeout" } =>
       /\ inter.sig.url     => inter.wait = "changed"
       /\ inter.sig.warning => inter.wait = "changed"
       /\ inter.sig.clave   => inter.wait = "changed"
       /\ inter.wait = "changed" =>
            (inter.sig.url \/ inter.sig.warning \/ inter.sig.clave)

C21_Witness ==
  /\ inter.fn = "tramite"
  /\ inter.wait = "changed"
  /\ ~inter.sig.url
  /\ inter.sig.warning
  /\ ~inter.sig.clave
  /\ inter.ret = "True"

\* C22: when the composite wait of the procedure step times out,
\* select_tramite returns success and the run goes on; with or without a
\* signal, the verdict is the one the classification rules give for the page.
C22_WaitTimeoutNotFatal ==
  /\ tram_wait = "timeout" =>
       /\ step_res["tramite"] = "ok"
       /\ pc \in { "auth_a", "auth_b", "classify" } \/ Ran("classify") \/ sigint
  /\ (tram_wait \in { "timeout", "changed" } /\ pc = "checked" /\ Ran("classify")) =>
       verdict = RuleVerdict

C22_Witness ==
  /\ tram_wait = "timeout"
  /\ pc = "exited"
  /\ exit_from = "main"
  /\ verdict = "NOT_AVAILABLE"
  /\ ~use_clave

\* C23 as stated: a failure to click the submit control in the procedure step
\* makes the step fail and the run end with ERROR.
C23_TramiteClickFailureIsError ==
  tram_wait = "skipped" =>
    /\ step_res["tramite"] = "fail"
    /\ verdict = "ERROR"

\* the number of times a step was started
Started(s) == Cardinality({ i \in 1..Len(steps) : steps[i] = s })

\* C24: each navigation step is started at most once, each submit control is
\* clicked at most once, and after a step has failed no step is started.
C24_NoRetries ==
  /\ \A s \in Steps : Started(s) <= 1
  /\ clicks.prov <= 1
  /\ clicks.tram <= 1
  /\ \A s \in Steps : step_res[s] = "fail" => steps[Len(steps)] = s

C24_Witness ==
  /\ pc = "exited"
  /\ step_res["provincia"] = "ok"
  /\ clicks.prov = 1
  /\ ~prov_obs.click
  /\ step_res["oficina"] = "fail"
  /\ run_ret = "ERROR"

\* C25: wait_for_ready_state never raises; it returns True exactly when the
\* readiness signal was observed, False on a timeout or an error of the poll,
\* and the step that called it returns success whatever it returned.
C25_ReadyStateNeverRaises ==
  inter.poll # "none" =>
    /\ ~inter.ready.raised
    /\ inter.ready.ret <=> inter.poll = "complete"
    /\ inter.pc = "done" => inter.ret = "True"

C25_Witness ==
  /\ inter.fn = "tramite"
  /\ inter.poll = "error"
  /\ inter.pc = "done"
  /\ inter.ret = "True"

C27_EveryClickAfterScroll ==
  inter.out.clicked => inter.out.scroll \in { "ok", "failed" }

\* C28 as stated: when the element was located and the scroll raises,
\* wait_and_click still performs the click and returns the click's own
\* outcome; in a selection step a failing scroll of the dropdown does not
\* prevent selecting the option.
C28_ScrollFailureNotFatal ==
  /\ (WacCalled /\ inter.wac_in.locate = "ok" /\ inter.wac_in.scroll = "raise") =>
       /\ inter.out.tried
       /\ inter.out.ret <=> inter.wac_in.click = "ok"
  /\ ( /\ inter.sel_in.locate = "ok"
       /\ inter.sel_in.scroll = "raise"
       /\ inter.sel_in.pick = "ok" ) => inter.sel

\* the three phrase sets of the classifier
PhraseSets ==
  [error    |-> error_indicators,
   negative |-> << no_citas_phrase >>,
   positive |-> positive_indicators]

\* C29 as stated: no phrase of one set contains a phrase of another set, and
\* a page text that is exactly one phrase of a set has no phrase of another.
C29_PhraseSetsExclusive ==
  \A a \in DOMAIN PhraseSets : \A b \in DOMAIN PhraseSets \ { a } :
    /\ \A i \in 1..Len(PhraseSets[a]) :
         ~ContainsAny(PhraseSets[a][i], PhraseSets[b])
    /\ (\E i \in 1..Len(PhraseSets[a]) : page_text = PhraseSets[a][i]) =>
         ~ContainsAny(page_text, PhraseSets[b])

\* C30: when #warning is absent or cannot be read, or is read and lacks the
\* no-slots phrase, the classifier goes on to read <body>, and the verdict is
\* the one the page-text checks give (ERROR when <body> cannot be read).
C30_WarningFallsThrough ==
  (pc = "checked" /\ Ran("classify") /\ ~WarningHasNoCitas) =>
    /\ reads.body \in { "ok", "error" }
    /\ reads.body = "ok" => page_text = DocText
    /\ verdict =
         IF reads.body = "error" THEN "ERROR"
         ELSE IF ContainsAny(DocText, error_indicators) THEN "ERROR"
         ELSE IF Contains(DocText, no_citas_phrase) THEN "NOT_AVAILABLE"
         ELSE IF ContainsAny(DocText, positive_indicators) THEN "AVAILABLE"
         ELSE "ERROR"

C30_Witness ==
  /\ pc = "checked"
  /\ page.warnAt # 0
  /\ reads.warning = "error"
  /\ reads.body = "ok"
  /\ Contains(DocText, no_citas_phrase)
  /\ verdict = "NOT_AVAILABLE"

\* C31: when <body> cannot be read during classification the verdict is
\* ERROR, run returns ERROR, and the browser has had quit() called on it when
\* run has returned.
C31_UnreadableBodyIsError ==
  reads.body = "error" =>
    /\ verdict = "ERROR"
    /\ run_ret \in { "none", "ERROR" }
    /\ pc \in { "main_exit", "exited" } => driver = "quit"
    /\ exit_from = "main" => exit_code = 2

C31_Witness ==
  /\ reads.body = "error"
  /\ reads.warning = "absent"
  /\ Contains(DocText, positive_indicators[2])
  /\ pc = "exited"
  /\ driver = "quit"
  /\ exit_code = 2

\* C32 as stated: the process ends with status 1 only after a run with the
\* verdict NOT_AVAILABLE, and with status 0 only after a run with the
\* verdict AVAILABLE.
C32_ExitCodeMeansVerdict ==
  pc = "exited" =>
    /\ exit_code = 1 => (verdict = "NOT_AVAILABLE" /\ run_ret = "NOT_AVAILABLE")
    /\ exit_code = 0 => (verdict = "AVAILABLE" /\ run_ret = "AVAILABLE")

\* C33: when an interrupt leaves run as KeyboardInterrupt before
\* check_availability has returned a verdict, a browser session that exists
\* has had quit() called on it when the process ends; after an interrupt the
\* browser is left open only when the verdict AVAILABLE was stored in result.
C33_InterruptReleasesBrowser ==
  /\ (exc = "KeyboardInterrupt" /\ verdict = "none" /\ pc = "exited") =>
       /\ driver \in { "none", "quit" }
       /\ driver = "none" => steps = << >>
  /\ (sigint /\ pc \in { "main_exit", "exited" } /\ driver = "open") =>
       (verdict = "AVAILABLE" /\ result = "AVAILABLE")

C33_Witness ==
  /\ exc = "KeyboardInterrupt"
  /\ pc = "exited"
  /\ verdict = "none"
  /\ steps = << "home", "provincia", "oficina", "tramite", "auth" >>
  /\ auth_res.b = "none"
  /\ driver = "quit"

Attempted == { ch \in Channels : notify.results[ch] # "none" }

Succeeded == { ch \in Channels : notify.results[ch] = "ok" }

\* C35: in the dispatcher 0 <= success_count <= total_count always holds; at
\* the summary total_count is at least 3; the exit status of the summary is 0
\* exactly when every attempted channel succeeded, 1 exactly when none did
\* and 2 exactly when some but not all did.
C35_CountersAndExitCode ==
  /\ 0 <= notify.success_count
  /\ notify.success_count <= notify.total_count
  /\ notify.pc = "summary" => notify.total_count >= 3
  /\ notify.exit_from = "summary" =>
       /\ notify.total_count >= 3
       /\ notify.exit_code = 0 <=> Succeeded = Attempted
       /\ notify.exit_code = 1 <=> Succeeded = { }
       /\ notify.exit_code = 2 <=> (Succeeded # { } /\ Succeeded # Attempted)

C35_Witness ==
  /\ notify.exit_from = "summary"
  /\ notify.exit_code = 2
  /\ notify.total_count = 3
  /\ notify.results["email"] = "fail"
  /\ notify.results["file"] = "ok"

====
